---- MODULE Spec2Model ----
(***************************************************************************)
(* A model of ged2excel.py: the depth repair pass over the lines of a      *)
(* GEDCOM file (repair_gedcom_numbering), the relationship linking of      *)
(* gedcom_to_excel (the individuals loop, the families loop and the final  *)
(* update of the individuals' relationship columns), and the file handling *)
(* of gedcom_to_excel and __main__ (temporary file, exceptions, messages). *)
(*                                                                         *)
(* Spec runs the repair pass, LinkSpec the linking, MainSpec a whole run.  *)
(*                                                                         *)
(* Text is modelled as a sequence of one-character strings, so that        *)
(* strip, split, int, str, join and sanitize_string work on characters as  *)
(* the Python code does.                                                   *)
(***************************************************************************)
EXTENDS Integers, Sequences, FiniteSets, TLC

\* ------------------------------------------------------------------------
\* Bounds of the model
\* ------------------------------------------------------------------------
MaxLines == 4

MaxElements == 3

MaxMainLines == 2

\* ------------------------------------------------------------------------
\* Python string primitives used by repair_gedcom_numbering
\* ------------------------------------------------------------------------
Digits == <<"0", "1", "2", "3", "4", "5", "6", "7", "8", "9">>

IsDigit(c) == \E n \in 1..10 : Digits[n] = c

DigitVal(c) == (CHOOSE n \in 1..10 : Digits[n] = c) - 1

\* the characters str.strip() removes and int() tolerates around a number
Whitespace == {" ", "\t"}

RECURSIVE lstrip(_)
lstrip(s) ==
    IF s = <<>> THEN s
    ELSE IF Head(s) \in Whitespace THEN lstrip(Tail(s)) ELSE s

RECURSIVE rstrip(_)
rstrip(s) ==
    IF s = <<>> THEN s
    ELSE IF s[Len(s)] \in Whitespace THEN rstrip(SubSeq(s, 1, Len(s) - 1)) ELSE s

\* line.strip()
strip(s) == rstrip(lstrip(s))

\* line.split(' ', maxsplit): cut at single spaces only, at most maxsplit times
RECURSIVE split(_, _)
split(s, maxsplit) ==
    IF maxsplit = 0 \/ ~(\E i \in 1..Len(s) : s[i] = " ") THEN <<s>>
    ELSE LET i == CHOOSE k \in 1..Len(s) :
                      s[k] = " " /\ \A j \in 1..(k - 1) : s[j] # " "
         IN  <<SubSeq(s, 1, i - 1)>> \o split(SubSeq(s, i + 1, Len(s)), maxsplit - 1)

\* the part of an int() literal after the sign
Unsigned(tok) ==
    LET t == strip(tok)
    IN  IF t # <<>> /\ t[1] \in {"+", "-"} THEN Tail(t) ELSE t

\* int(tok) does not raise ValueError: optional surrounding whitespace, an
\* optional sign, then digits with single underscores between digits
IsInt(tok) ==
    LET b == Unsigned(tok)
    IN  /\ b # <<>>
        /\ \A i \in 1..Len(b) :
              \/ IsDigit(b[i])
              \/ /\ b[i] = "_"
                 /\ 1 < i /\ i < Len(b)
                 /\ IsDigit(b[i - 1]) /\ IsDigit(b[i + 1])

RECURSIVE DecValue(_, _)
DecValue(b, acc) ==
    IF b = <<>> THEN acc
    ELSE IF Head(b) = "_" THEN DecValue(Tail(b), acc)
    ELSE DecValue(Tail(b), 10 * acc + DigitVal(Head(b)))

\* int(tok), for a tok with IsInt(tok)
int(tok) ==
    LET t == strip(tok)
        v == DecValue(Unsigned(tok), 0)
    IN  IF t[1] = "-" THEN 0 - v ELSE v

\* str(n), the decimal text the f-string writes for the level
RECURSIVE str(_)
str(n) ==
    IF n < 0 THEN <<"-">> \o str(0 - n)
    ELSE IF n < 10 THEN <<Digits[n + 1]>>
    ELSE str(n \div 10) \o <<Digits[(n % 10) + 1]>>

\* ------------------------------------------------------------------------
\* The lines an input file is made of
\* ------------------------------------------------------------------------
RawLines ==
    { <<"0", " ", "H">>,                                \* 0 H
      <<"1", " ", "N", " ", "a", " ", "b">>,            \* 1 N a b
      <<"2", " ", "D">>,                                \* 2 D
      <<"5", " ", "P">>,                                \* 5 P
      <<"-", "1", " ", "T">>,                           \* -1 T
      <<"X", " ", "N", " ", "s">>,                      \* X N s
      <<" ", "\t">>,                                    \* a blank line
      <<"0">>,                                          \* a single token
      <<"1", "\t", "N", "\t", "b">>,                    \* fields separated by tabs
      <<" ", "0", "1", " ", " ", "N", " ">> }           \* " 01  N "

Files == UNION { [1..n -> RawLines] : n \in 0..MaxLines }

\* ------------------------------------------------------------------------
\* State
\* ------------------------------------------------------------------------
VARIABLES
    infile,          \* the lines of the file opened for reading
    pos,             \* number of lines the for loop has consumed
    previous_level,  \* previous_level of repair_gedcom_numbering
    outfile,         \* the lines written to the file opened for writing
    pc,              \* "loop", "closed" (returned) or "raised" (IndexError)
    run,             \* 1: the pass over the input, 2: the pass over its own output
    first_input,     \* the input of run 1
    first_output,    \* what run 1 wrote
    elements,        \* gedcom_parser.get_element_list()
    phase,           \* the loop gedcom_to_excel is in
    idx,             \* the position of that loop
    id_to_name,      \* dict: pointer -> name
    child_to_parents, \* dict: child id -> (husband id, wife id)
    id_to_spouses,   \* dict: id -> list of spouse ids
    id_to_children,  \* dict: id -> list of child ids
    individuals_data, \* the rows of the Individuals sheet
    families_data,   \* the rows of the Families sheet
    input_status,    \* the input path: "readable", "missing" or "unreadable"
    output_status,   \* the output path: "writable", "no_directory" or "unwritable"
    temp_exists,     \* the temporary repaired file is on disk
    step,            \* where __main__ and gedcom_to_excel are
    exception,       \* the exception in flight: its type and the path it names
    outcome,         \* what the run has printed: its kind and the path it names
    workbook         \* the Excel file has been written

repairVars == <<infile, pos, previous_level, outfile, pc, run, first_input, first_output>>

indexVars == <<child_to_parents, id_to_spouses, id_to_children>>

linkVars == <<elements, phase, idx, id_to_name, indexVars, individuals_data, families_data>>

mainVars == <<input_status, output_status, temp_exists, step, exception, outcome, workbook>>

vars == <<repairVars, linkVars, mainVars>>

\* ------------------------------------------------------------------------
\* repair_gedcom_numbering
\* ------------------------------------------------------------------------
\* the stripped line the loop body works on
CurrentLine == strip(infile[pos + 1])

ParsedLevel_ZeroFallback(parts, prev) ==
    IF IsInt(parts[1]) THEN int(parts[1]) ELSE 0

\* lines 22-25: the parsed level, or the fallback when int() raises ValueError
ParsedLevel(parts, prev) ==
    IF IsInt(parts[1]) THEN int(parts[1])
    ELSE IF prev >= 0 THEN prev + 1 ELSE 0

ClampLevel_NoJumpClamp(level, prev) ==
    IF level < 0 THEN 0 ELSE level

\* lines 26-29: the clamp
ClampLevel(level, prev) ==
    IF level > prev + 1 THEN prev + 1
    ELSE IF level < 0 THEN 0
    ELSE level

\* lines 30-33: the repaired line
RepairedLine(level, parts) ==
    IF Len(parts) = 3
    THEN str(level) \o <<" ">> \o parts[2] \o <<" ">> \o parts[3]
    ELSE str(level) \o <<" ">> \o parts[2]

NoException == [type |-> "none", path |-> "none"]

NoOutcome == [kind |-> "none", path |-> "none"]

\* __main__ is not part of the run: no file fails and nothing is reported
NotStarted ==
    /\ input_status = "readable"
    /\ output_status = "writable"
    /\ temp_exists = FALSE
    /\ step = "idle"
    /\ exception = NoException
    /\ outcome = NoOutcome
    /\ workbook = FALSE

\* line 108-111 have not run: nothing is parsed or linked while the pass runs
NotParsed ==
    /\ elements = <<>>
    /\ phase = "individuals"
    /\ idx = 1
    /\ id_to_name = <<>>
    /\ child_to_parents = <<>>
    /\ id_to_spouses = <<>>
    /\ id_to_children = <<>>
    /\ individuals_data = <<>>
    /\ families_data = <<>>

InitRepair ==
    /\ infile \in Files
    /\ pos = 0
    /\ previous_level = -1
    /\ outfile = <<>>
    /\ pc = "loop"
    /\ run = 1
    /\ first_input = infile
    /\ first_output = <<>>
    /\ NotParsed
    /\ NotStarted

\* lines 18-20: a blank line is skipped
SkipBlank ==
    /\ pc = "loop"
    /\ pos < Len(infile)
    /\ CurrentLine = <<>>
    /\ pos' = pos + 1
    /\ UNCHANGED <<infile, previous_level, outfile, pc, run, first_input, first_output>>
    /\ UNCHANGED linkVars
    /\ UNCHANGED mainVars

RepairLine_RawPrevious ==
    /\ pc = "loop"
    /\ pos < Len(infile)
    /\ CurrentLine # <<>>
    /\ LET parts == split(CurrentLine, 2)
           raw   == ParsedLevel(parts, previous_level)
           level == ClampLevel(raw, previous_level)
       IN  /\ Len(parts) >= 2
           /\ outfile' = Append(outfile, RepairedLine(level, parts))
           /\ previous_level' = IF raw < 0 THEN 0 ELSE raw
    /\ pos' = pos + 1
    /\ UNCHANGED <<infile, pc, run, first_input, first_output>>
    /\ UNCHANGED linkVars
    /\ UNCHANGED mainVars

\* lines 21-35: a line with at least two fields is repaired and written
RepairLine ==
    /\ pc = "loop"
    /\ pos < Len(infile)
    /\ CurrentLine # <<>>
    /\ LET parts == split(CurrentLine, 2)
           level == ClampLevel(ParsedLevel(parts, previous_level), previous_level)
       IN  /\ Len(parts) >= 2
           /\ outfile' = Append(outfile, RepairedLine(level, parts))
           /\ previous_level' = level
    /\ pos' = pos + 1
    /\ UNCHANGED <<infile, pc, run, first_input, first_output>>
    /\ UNCHANGED linkVars
    /\ UNCHANGED mainVars

\* line 33: parts[1] of a line without a space raises IndexError, which
\* nothing in the function catches; the with block closes both files
RaiseIndexError ==
    /\ pc = "loop"
    /\ pos < Len(infile)
    /\ CurrentLine # <<>>
    /\ Len(split(CurrentLine, 2)) < 2
    /\ pc' = "raised"
    /\ UNCHANGED <<infile, pos, previous_level, outfile, run, first_input, first_output>>
    /\ UNCHANGED linkVars
    /\ UNCHANGED mainVars

\* line 17 at end of file, line 36: the loop ends and the function returns
CloseFiles ==
    /\ pc = "loop"
    /\ pos = Len(infile)
    /\ pc' = "closed"
    /\ UNCHANGED <<infile, pos, previous_level, outfile, run, first_input, first_output>>
    /\ UNCHANGED linkVars
    /\ UNCHANGED mainVars

\* lines 11-16 once more: the pass is run on the file it has just written
RepairAgain ==
    /\ pc = "closed"
    /\ run = 1
    /\ run' = 2
    /\ first_output' = outfile
    /\ infile' = outfile
    /\ pos' = 0
    /\ previous_level' = -1
    /\ outfile' = <<>>
    /\ pc' = "loop"
    /\ UNCHANGED first_input
    /\ UNCHANGED linkVars
    /\ UNCHANGED mainVars

NextRepair ==
    \/ SkipBlank
    \/ RepairLine
    \/ RaiseIndexError
    \/ CloseFiles
    \/ RepairAgain

Spec == InitRepair /\ [][NextRepair]_vars

\* ------------------------------------------------------------------------
\* sanitize_string and the other text operations of gedcom_to_excel
\* ------------------------------------------------------------------------
\* the characters of [\x00-\x08\x0B\x0C\x0E-\x1F] that the model's texts use
ControlChars == {"\f"}

\* lines 43-46, one character at a time
SanitizeChar(c) ==
    IF c \in ControlChars THEN <<>>
    ELSE IF c = "^" THEN <<" ">>
    ELSE IF c = "·" THEN <<".">>
    ELSE <<c>>

\* sanitize_string(text), for a text that is a str
RECURSIVE sanitize_string(_)
sanitize_string(text) ==
    IF text = <<>> THEN <<>>
    ELSE SanitizeChar(Head(text)) \o sanitize_string(Tail(text))

\* ", ".join(texts)
RECURSIVE join(_)
join(texts) ==
    IF texts = <<>> THEN <<>>
    ELSE IF Len(texts) = 1 THEN texts[1]
    ELSE texts[1] \o <<",", " ">> \o join(Tail(texts))

\* ------------------------------------------------------------------------
\* dict operations
\* ------------------------------------------------------------------------
\* d.get(k, default)
Get(d, k, default) == IF k \in DOMAIN d THEN d[k] ELSE default

\* d[k] = v
Put(d, k, v) == [x \in (DOMAIN d) \cup {k} |-> IF x = k THEN v ELSE d[x]]

\* d.setdefault(k, []).extend(vs)
Extend(d, k, vs) == Put(d, k, Get(d, k, <<>>) \o vs)

\* ------------------------------------------------------------------------
\* The records the parser hands over
\* ------------------------------------------------------------------------
NoText == <<>>

I1 == <<"@", "I", "1", "@">>

I2 == <<"@", "I", "2", "@">>

I3 == <<"@", "I", "^", "3", "@">>

F1 == <<"@", "F", "1", "@">>

Individual(pointer, given, surname) ==
    [kind |-> "INDI", pointer |-> pointer, name |-> <<given, surname>>, children |-> <<>>]

\* a family record with its HUSB, WIFE and CHIL lines; an absent husband or
\* wife has no line
Family(h, w, cs) ==
    [kind |-> "FAM", pointer |-> F1, name |-> <<>>,
     children |->
        (IF h = NoText THEN <<>> ELSE <<[tag |-> "HUSB", value |-> h]>>)
        \o (IF w = NoText THEN <<>> ELSE <<[tag |-> "WIFE", value |-> w]>>)
        \o [i \in 1..Len(cs) |-> [tag |-> "CHIL", value |-> cs[i]]]]

Individuals ==
    { Individual(I1, <<"J", "o", "h", "n">>, <<"D", "o", "e">>),
      Individual(I2, <<"J", "a", "n", "e">>, <<"D", "o", "e">>),
      Individual(I3, <<"S", "a", "m">>, <<"D", "o", "e">>) }

Families ==
    { Family(h, w, cs) : h \in {NoText, I1}, w \in {NoText, I2}, cs \in {<<>>, <<I3>>} }
    \cup { Family(I1, NoText, <<I2>>), Family(I2, I1, <<>>),
           Family(I1, NoText, <<I3, I2>>), Family(I1, I1, <<I2>>) }

Elements == Individuals \cup Families

ElementLists == UNION { [1..n -> Elements] : n \in 0..MaxElements }

\* ------------------------------------------------------------------------
\* gedcom_to_excel: the individuals loop, the families loop, the update loop
\* ------------------------------------------------------------------------
\* line 138
NameOf(element) ==
    IF element.name # <<>>
    THEN element.name[1] \o <<" ">> \o element.name[2]
    ELSE <<"U", "n", "k", "n", "o", "w", "n">>

\* lines 230-232: the value of the last child line with this tag, "" if none
RECURSIVE LastValue(_, _, _)
LastValue(children, tag, sofar) ==
    IF children = <<>> THEN sofar
    ELSE LastValue(Tail(children), tag,
                   IF Head(children).tag = tag THEN Head(children).value ELSE sofar)

HusbandId(element) == LastValue(element.children, "HUSB", NoText)

WifeId(element) == LastValue(element.children, "WIFE", NoText)

\* line 233: the values of the CHIL lines, in order
RECURSIVE ChildrenIds(_)
ChildrenIds(children) ==
    IF children = <<>> THEN <<>>
    ELSE (IF Head(children).tag = "CHIL" THEN <<Head(children).value>> ELSE <<>>)
         \o ChildrenIds(Tail(children))

RECURSIVE SetParents_FirstWins(_, _, _, _)
SetParents_FirstWins(c2p, children_ids, husband_id, wife_id) ==
    IF children_ids = <<>> THEN c2p
    ELSE SetParents_FirstWins(
             IF Head(children_ids) \in DOMAIN c2p THEN c2p
             ELSE Put(c2p, Head(children_ids), <<husband_id, wife_id>>),
             Tail(children_ids), husband_id, wife_id)

\* lines 260-261
RECURSIVE SetParents(_, _, _, _)
SetParents(c2p, children_ids, husband_id, wife_id) ==
    IF children_ids = <<>> THEN c2p
    ELSE SetParents(Put(c2p, Head(children_ids), <<husband_id, wife_id>>),
                    Tail(children_ids), husband_id, wife_id)

AddSpouses_HusbandOnly(spouses, husband_id, wife_id) ==
    IF husband_id # NoText THEN Extend(spouses, husband_id, <<wife_id>>) ELSE spouses

\* lines 263 and 266
AddSpouses(spouses, husband_id, wife_id) ==
    LET s1 == IF husband_id # NoText
              THEN Extend(spouses, husband_id, <<wife_id>>) ELSE spouses
    IN  IF wife_id # NoText THEN Extend(s1, wife_id, <<husband_id>>) ELSE s1

\* the ids of vs that list does not hold yet
RECURSIVE NotYetIn(_, _)
NotYetIn(list, vs) ==
    IF vs = <<>> THEN <<>>
    ELSE IF \E i \in 1..Len(list) : list[i] = Head(vs)
         THEN NotYetIn(list, Tail(vs))
         ELSE <<Head(vs)>> \o NotYetIn(Append(list, Head(vs)), Tail(vs))

AddChildren_Dedup(children, husband_id, wife_id, children_ids) ==
    LET c1 == IF husband_id # NoText
              THEN Extend(children, husband_id,
                          NotYetIn(Get(children, husband_id, <<>>), children_ids))
              ELSE children
    IN  IF wife_id # NoText
        THEN Extend(c1, wife_id, NotYetIn(Get(c1, wife_id, <<>>), children_ids))
        ELSE c1

\* lines 264 and 267
AddChildren(children, husband_id, wife_id, children_ids) ==
    LET c1 == IF husband_id # NoText
              THEN Extend(children, husband_id, children_ids) ELSE children
    IN  IF wife_id # NoText THEN Extend(c1, wife_id, children_ids) ELSE c1

\* id_to_name.get(i, "") for i in ids
NamesOf(ids) == [i \in 1..Len(ids) |-> Get(id_to_name, ids[i], NoText)]

\* lines 191-192 and 207-214: the row of an individual
IndividualRow(id, name) ==
    [ID |-> sanitize_string(id), Name |-> sanitize_string(name),
     FatherID |-> NoText, MotherID |-> NoText,
     FatherName |-> NoText, MotherName |-> NoText,
     SpouseID |-> NoText, SpouseName |-> NoText,
     ChildrenIDs |-> NoText, ChildrenNames |-> NoText]

\* lines 269-273 and 284-285: the row of a family
FamilyRow(fam_id, husband_id, wife_id, children_ids) ==
    [FamilyID |-> sanitize_string(fam_id),
     HusbandID |-> sanitize_string(husband_id),
     HusbandName |-> sanitize_string(Get(id_to_name, husband_id, NoText)),
     WifeID |-> sanitize_string(wife_id),
     WifeName |-> sanitize_string(Get(id_to_name, wife_id, NoText)),
     ChildrenIDs |-> sanitize_string(join(children_ids)),
     ChildrenNames |-> sanitize_string(join(NamesOf(children_ids)))]

\* lines 373-378
WithParents(row) ==
    IF row.ID \in DOMAIN child_to_parents
    THEN LET father_id == child_to_parents[row.ID][1]
             mother_id == child_to_parents[row.ID][2]
         IN  [row EXCEPT !.FatherID = sanitize_string(father_id),
                         !.MotherID = sanitize_string(mother_id),
                         !.FatherName = sanitize_string(Get(id_to_name, father_id, NoText)),
                         !.MotherName = sanitize_string(Get(id_to_name, mother_id, NoText))]
    ELSE row

\* lines 379-382
WithSpouses(row) ==
    IF row.ID \in DOMAIN id_to_spouses
    THEN LET spouse_ids == id_to_spouses[row.ID]
         IN  [row EXCEPT !.SpouseID = sanitize_string(join(spouse_ids)),
                         !.SpouseName = sanitize_string(join(NamesOf(spouse_ids)))]
    ELSE row

\* lines 383-386
WithChildren(row) ==
    IF row.ID \in DOMAIN id_to_children
    THEN LET children_ids == id_to_children[row.ID]
         IN  [row EXCEPT !.ChildrenIDs = sanitize_string(join(children_ids)),
                         !.ChildrenNames = sanitize_string(join(NamesOf(children_ids)))]
    ELSE row

\* the repair pass has returned and the parser has read the repaired file
Repaired ==
    /\ infile = <<>>
    /\ pos = 0
    /\ previous_level = -1
    /\ outfile = <<>>
    /\ pc = "closed"
    /\ run = 1
    /\ first_input = <<>>
    /\ first_output = <<>>

\* lines 56-57 and 108-111
InitLink ==
    /\ elements \in ElementLists
    /\ phase = "individuals"
    /\ idx = 1
    /\ id_to_name = <<>>
    /\ child_to_parents = <<>>
    /\ id_to_spouses = <<>>
    /\ id_to_children = <<>>
    /\ individuals_data = <<>>
    /\ families_data = <<>>
    /\ Repaired
    /\ NotStarted

\* lines 135-217: one iteration of the individuals loop
IndividualsLoop ==
    /\ phase = "individuals"
    /\ idx <= Len(elements)
    /\ LET element == elements[idx]
           id      == element.pointer
           name    == NameOf(element)
       IN  IF element.kind = "INDI"
           THEN /\ id_to_name' = Put(id_to_name, id, name)
                /\ individuals_data' = Append(individuals_data, IndividualRow(id, name))
           ELSE UNCHANGED <<id_to_name, individuals_data>>
    /\ idx' = idx + 1
    /\ UNCHANGED <<elements, phase, indexVars, families_data>>
    /\ UNCHANGED repairVars
    /\ UNCHANGED mainVars

\* line 135 exhausted, line 220 begins
EndIndividuals ==
    /\ phase = "individuals"
    /\ idx > Len(elements)
    /\ phase' = "families"
    /\ idx' = 1
    /\ UNCHANGED <<elements, id_to_name, indexVars, individuals_data, families_data>>
    /\ UNCHANGED repairVars
    /\ UNCHANGED mainVars

\* lines 220-288: one iteration of the families loop
FamiliesLoop ==
    /\ phase = "families"
    /\ idx <= Len(elements)
    /\ LET element      == elements[idx]
           fam_id       == element.pointer
           husband_id   == HusbandId(element)
           wife_id      == WifeId(element)
           children_ids == ChildrenIds(element.children)
       IN  IF element.kind = "FAM"
           THEN /\ child_to_parents' =
                       SetParents(child_to_parents, children_ids, husband_id, wife_id)
                /\ id_to_spouses' = AddSpouses(id_to_spouses, husband_id, wife_id)
                /\ id_to_children' =
                       AddChildren(id_to_children, husband_id, wife_id, children_ids)
                /\ families_data' =
                       Append(families_data,
                              FamilyRow(fam_id, husband_id, wife_id, children_ids))
           ELSE UNCHANGED <<indexVars, families_data>>
    /\ idx' = idx + 1
    /\ UNCHANGED <<elements, phase, id_to_name, individuals_data>>
    /\ UNCHANGED repairVars
    /\ UNCHANGED mainVars

\* line 220 exhausted; the loops of lines 291-369 (sources, notes, multimedia,
\* associations, submitters) touch none of this state; line 372 begins
EndFamilies ==
    /\ phase = "families"
    /\ idx > Len(elements)
    /\ phase' = "update"
    /\ idx' = 1
    /\ UNCHANGED <<elements, id_to_name, indexVars, individuals_data, families_data>>
    /\ UNCHANGED repairVars
    /\ UNCHANGED mainVars

UpdateLoop_SetDefault ==
    /\ phase = "update"
    /\ idx <= Len(individuals_data)
    /\ individuals_data' =
           [individuals_data EXCEPT
               ![idx] = WithChildren(WithSpouses(WithParents(individuals_data[idx])))]
    /\ id_to_spouses' = Extend(id_to_spouses, individuals_data[idx].ID, <<>>)
    /\ idx' = idx + 1
    /\ UNCHANGED <<elements, phase, id_to_name, child_to_parents, id_to_children, families_data>>
    /\ UNCHANGED repairVars
    /\ UNCHANGED mainVars

\* lines 372-386: one iteration of the update loop
UpdateLoop ==
    /\ phase = "update"
    /\ idx <= Len(individuals_data)
    /\ individuals_data' =
           [individuals_data EXCEPT
               ![idx] = WithChildren(WithSpouses(WithParents(individuals_data[idx])))]
    /\ idx' = idx + 1
    /\ UNCHANGED <<elements, phase, id_to_name, indexVars, families_data>>
    /\ UNCHANGED repairVars
    /\ UNCHANGED mainVars

\* line 372 exhausted: the sheets are ready for lines 389-397
EndUpdate ==
    /\ phase = "update"
    /\ idx > Len(individuals_data)
    /\ phase' = "done"
    /\ UNCHANGED <<elements, idx, id_to_name, indexVars, individuals_data, families_data>>
    /\ UNCHANGED repairVars
    /\ UNCHANGED mainVars

NextLink ==
    \/ IndividualsLoop
    \/ EndIndividuals
    \/ FamiliesLoop
    \/ EndFamilies
    \/ UpdateLoop
    \/ EndUpdate

LinkSpec == InitLink /\ [][NextLink]_vars

\* ------------------------------------------------------------------------
\* __main__ and the file handling of gedcom_to_excel
\* ------------------------------------------------------------------------
MainFiles == UNION { [1..n -> RawLines] : n \in 0..MaxMainLines }

\* line 425 is about to call gedcom_to_excel
InitMain ==
    /\ input_status \in {"readable", "missing", "unreadable"}
    /\ output_status \in {"writable", "no_directory", "unwritable"}
    /\ infile \in (IF input_status = "readable" THEN MainFiles ELSE {<<>>})
    /\ pos = 0
    /\ previous_level = -1
    /\ outfile = <<>>
    /\ pc = "unopened"
    /\ run = 1
    /\ first_input = infile
    /\ first_output = <<>>
    /\ temp_exists = FALSE
    /\ step = "call"
    /\ exception = NoException
    /\ outcome = NoOutcome
    /\ workbook = FALSE
    /\ NotParsed

\* line 51: NamedTemporaryFile(delete=False) creates the file
CreateTemp ==
    /\ step = "call"
    /\ temp_exists' = TRUE
    /\ step' = "repair"
    /\ UNCHANGED <<input_status, output_status, exception, outcome, workbook>>
    /\ UNCHANGED <<repairVars, linkVars>>

\* lines 13-16: both files open
OpenFiles ==
    /\ step = "repair"
    /\ pc = "unopened"
    /\ input_status = "readable"
    /\ pc' = "loop"
    /\ UNCHANGED <<infile, pos, previous_level, outfile, run, first_input, first_output>>
    /\ UNCHANGED <<linkVars, mainVars>>

\* line 13: open() of the input path raises
OpenFails ==
    /\ step = "repair"
    /\ pc = "unopened"
    /\ input_status # "readable"
    /\ pc' = "raised"
    /\ exception' =
          [type |-> IF input_status = "missing" THEN "FileNotFoundError" ELSE "PermissionError",
           path |-> "input"]
    /\ UNCHANGED <<infile, pos, previous_level, outfile, run, first_input, first_output>>
    /\ UNCHANGED <<input_status, output_status, temp_exists, step, outcome, workbook>>
    /\ UNCHANGED linkVars

\* lines 51-52: an exception of the repair pass leaves the with block of line
\* 51, which is before the try of line 55, and reaches __main__
RepairPropagates ==
    /\ step = "repair"
    /\ pc = "raised"
    /\ exception' =
          IF exception = NoException
          THEN [type |-> "IndexError", path |-> "none"]
          ELSE exception
    /\ step' = "except"
    /\ UNCHANGED <<input_status, output_status, temp_exists, outcome, workbook>>
    /\ UNCHANGED <<repairVars, linkVars>>

\* lines 52-56: the repair pass has returned, the try block is entered
RepairReturns ==
    /\ step = "repair"
    /\ pc = "closed"
    /\ step' = "parse"
    /\ UNCHANGED <<input_status, output_status, temp_exists, exception, outcome, workbook>>
    /\ UNCHANGED <<repairVars, linkVars>>

\* line 57: the parser reads the repaired file
ParseFile ==
    /\ step = "parse"
    /\ step' = "convert"
    /\ UNCHANGED <<input_status, output_status, temp_exists, exception, outcome, workbook>>
    /\ UNCHANGED <<repairVars, linkVars>>

\* line 57: the parser rejects the repaired file
ParseRaises ==
    /\ step = "parse"
    /\ exception' = [type |-> "GedcomFormatViolationError", path |-> "none"]
    /\ step' = "finally"
    /\ UNCHANGED <<input_status, output_status, temp_exists, outcome, workbook>>
    /\ UNCHANGED <<repairVars, linkVars>>

\* lines 59-397: the sheets are built in memory
BuildSheets ==
    /\ step = "convert"
    /\ step' = "write"
    /\ UNCHANGED <<input_status, output_status, temp_exists, exception, outcome, workbook>>
    /\ UNCHANGED <<repairVars, linkVars>>

\* lines 400-411: the workbook is written and the completion is printed
WriteWorkbook ==
    /\ step = "write"
    /\ output_status = "writable"
    /\ workbook' = TRUE
    /\ outcome' = [kind |-> "complete", path |-> "output"]
    /\ step' = "finally"
    /\ UNCHANGED <<input_status, output_status, temp_exists, exception>>
    /\ UNCHANGED <<repairVars, linkVars>>

\* line 400: the output path cannot be written. For a missing directory the
\* exception is FileNotFoundError or a plain OSError, depending on the pandas
\* version that is installed
WriteFails ==
    /\ step = "write"
    /\ output_status # "writable"
    /\ \E type \in (IF output_status = "unwritable"
                    THEN {"PermissionError"}
                    ELSE {"FileNotFoundError", "OSError"}) :
          exception' = [type |-> type, path |-> "output"]
    /\ step' = "finally"
    /\ UNCHANGED <<input_status, output_status, temp_exists, outcome, workbook>>
    /\ UNCHANGED <<repairVars, linkVars>>

\* lines 413-416, then the return or the exception goes on to __main__
Finally ==
    /\ step = "finally"
    /\ temp_exists' = FALSE
    /\ step' = IF exception = NoException THEN "exited" ELSE "except"
    /\ UNCHANGED <<input_status, output_status, exception, outcome, workbook>>
    /\ UNCHANGED <<repairVars, linkVars>>

\* lines 426-427: the message names args.input_file, whatever file was missing
ReportNotFound ==
    /\ step = "except"
    /\ exception.type = "FileNotFoundError"
    /\ outcome' = [kind |-> "gedcom_file_not_found", path |-> "input"]
    /\ step' = "exited"
    /\ UNCHANGED <<input_status, output_status, temp_exists, exception, workbook>>
    /\ UNCHANGED <<repairVars, linkVars>>

\* lines 428-429: the message is str(e), which for an OSError names its path
ReportError ==
    /\ step = "except"
    /\ exception.type # "FileNotFoundError"
    /\ outcome' = [kind |-> "an_error_occurred", path |-> exception.path]
    /\ step' = "exited"
    /\ UNCHANGED <<input_status, output_status, temp_exists, exception, workbook>>
    /\ UNCHANGED <<repairVars, linkVars>>

NextMain ==
    \/ CreateTemp
    \/ OpenFiles
    \/ OpenFails
    \/ SkipBlank
    \/ RepairLine
    \/ RaiseIndexError
    \/ CloseFiles
    \/ RepairPropagates
    \/ RepairReturns
    \/ ParseFile
    \/ ParseRaises
    \/ BuildSheets
    \/ WriteWorkbook
    \/ WriteFails
    \/ Finally
    \/ ReportNotFound
    \/ ReportError

MainSpec == InitMain /\ [][NextMain]_vars

\* ------------------------------------------------------------------------
\* Properties of the depth repair pass
\* ------------------------------------------------------------------------
\* the depth a written line carries, read back from its text
EmittedDepth(line) == int(split(line, 1)[1])

EmittedDepths(lines) == [i \in 1..Len(lines) |-> EmittedDepth(lines[i])]

Min(a, b) == IF a <= b THEN a ELSE b

Max(a, b) == IF a >= b THEN a ELSE b

NonBlank(lines) == Cardinality({i \in 1..Len(lines) : strip(lines[i]) # <<>>})

\* the reference rule for the depths: min(max(d, 0), prev + 1) over the
\* non-blank lines, prev being the depth emitted for the line before
RECURSIVE RefDepths(_, _)
RefDepths(lines, prev) ==
    IF lines = <<>> THEN <<>>
    ELSE LET l == strip(Head(lines))
         IN  IF l = <<>> THEN RefDepths(Tail(lines), prev)
             ELSE LET tok == split(l, 1)[1]
                      d   == IF IsInt(tok) THEN int(tok) ELSE prev + 1
                      e   == Min(Max(d, 0), prev + 1)
                  IN  <<e>> \o RefDepths(Tail(lines), e)

\* C1: the written depths start at exactly 0, are never negative, and never
\* rise by more than one from one written line to the next.
C1_DepthClamp ==
    /\ \A i \in 1..Len(outfile) :
          /\ IsInt(split(outfile[i], 1)[1])
          /\ EmittedDepth(outfile[i]) >= 0
          /\ i > 1 => EmittedDepth(outfile[i]) <= EmittedDepth(outfile[i - 1]) + 1
    /\ outfile # <<>> => EmittedDepth(outfile[1]) = 0

\* C1 witness: a line at depth 0 followed by a line claiming depth 5 has been
\* written at depth 1.
C1_Witness ==
    /\ run = 1 /\ pc = "closed"
    /\ Len(infile) >= 2
    /\ infile[1] = <<"0", " ", "H">>
    /\ infile[2] = <<"5", " ", "P">>
    /\ EmittedDepth(outfile[2]) = 1

\* C2: the pass is total, no input line makes repair_gedcom_numbering raise.
C2_Total == pc # "raised"

\* C3: the depths written for the lines consumed so far are those of the
\* reference rule min(max(d, 0), prev + 1), blank lines leaving prev alone.
C3_ReferenceRule ==
    EmittedDepths(outfile) = RefDepths(SubSeq(infile, 1, pos), -1)

\* C3 witness: an unparsable depth token after a line written at depth 2 has
\* been written at depth 3.
C3_Witness ==
    /\ run = 1 /\ pc = "closed"
    /\ \E i \in 2..Len(outfile) :
          /\ EmittedDepth(outfile[i - 1]) = 2
          /\ EmittedDepth(outfile[i]) = 3
          /\ \E j \in 1..Len(infile) :
                /\ ~IsInt(split(strip(infile[j]), 2)[1])
                /\ NonBlank(SubSeq(infile, 1, j)) = i

\* C4: when the pass has ended, it has written one line for every non-blank
\* input line.
C4_Length ==
    (run = 1 /\ pc # "loop") => Len(outfile) = NonBlank(infile)

\* C5: the pass over the pass's own output completes and writes that output
\* again, line for line.
C5_Idempotent ==
    run = 2 =>
        /\ pc # "raised"
        /\ outfile = SubSeq(first_output, 1, pos)
        /\ pc = "closed" => outfile = first_output

\* C5 witness: the second pass has completed on an output in which the first
\* pass had changed depths.
C5_Witness ==
    /\ run = 2 /\ pc = "closed"
    /\ Len(first_output) >= 3
    /\ outfile = first_output
    /\ first_output # first_input
    /\ \E i \in 1..Len(first_input) :
          /\ strip(first_input[i]) # <<>>
          /\ IsInt(split(strip(first_input[i]), 2)[1])
          /\ int(split(strip(first_input[i]), 2)[1]) = 5

\* ------------------------------------------------------------------------
\* Properties of the relationship linking
\* ------------------------------------------------------------------------
Ids == {I1, I2, I3}

\* how many elements the families loop has been through
Indexed ==
    IF phase = "individuals" THEN 0
    ELSE IF phase = "families" THEN idx - 1
    ELSE Len(elements)

FamilyPositions(upto) == {j \in 1..upto : elements[j].kind = "FAM"}

\* the positions of the family records, among the first upto elements, that
\* list id as a child
Listing(id, upto) ==
    {j \in FamilyPositions(upto) :
        \E i \in 1..Len(ChildrenIds(elements[j].children)) :
            ChildrenIds(elements[j].children)[i] = id}

Last(S) == CHOOSE j \in S : \A k \in S : k <= j

ParentsIn(j) == <<HusbandId(elements[j]), WifeId(elements[j])>>

Count(list, x) == Cardinality({i \in 1..Len(list) : list[i] = x})

\* the row of individuals_data that the individual at position k was given
RowOf(k) == Cardinality({j \in 1..k : elements[j].kind = "INDI"})

\* C6: child_to_parents maps every child to the (husband, wife) of the last
\* family record in file order that lists it, of those indexed so far, and
\* has no entry for an id no indexed family lists.
C6_LastWriteWins ==
    \A c \in Ids :
        IF Listing(c, Indexed) = {}
        THEN c \notin DOMAIN child_to_parents
        ELSE /\ c \in DOMAIN child_to_parents
             /\ child_to_parents[c] = ParentsIn(Last(Listing(c, Indexed)))

\* C6 witness: two family records with different parents list the same child,
\* and after the families loop the child has the parents of the later one.
C6_Witness ==
    /\ phase = "done"
    /\ \E c \in Ids : \E j1, j2 \in Listing(c, Len(elements)) :
          /\ j1 < j2
          /\ ParentsIn(j1) # ParentsIn(j2)
          /\ j2 = Last(Listing(c, Len(elements)))
          /\ child_to_parents[c] = ParentsIn(j2)

\* C7: for every indexed family record with both a husband H and a wife W,
\* W is in id_to_spouses[H], H is in id_to_spouses[W], and W occurs in the
\* one list as often as H in the other.
C7_SpouseSymmetry ==
    \A j \in FamilyPositions(Indexed) :
        LET H == HusbandId(elements[j])
            W == WifeId(elements[j])
        IN  (H # NoText /\ W # NoText) =>
                /\ H \in DOMAIN id_to_spouses
                /\ W \in DOMAIN id_to_spouses
                /\ Count(id_to_spouses[H], W) >= 1
                /\ Count(id_to_spouses[W], H) >= 1
                /\ Count(id_to_spouses[H], W) = Count(id_to_spouses[W], H)

\* C7 witness: the families loop is over and a couple that two records name,
\* once in each role, is twice in each other's spouse list.
C7_Witness ==
    /\ phase = "done"
    /\ \E j1, j2 \in FamilyPositions(Len(elements)) :
          /\ HusbandId(elements[j1]) = I1 /\ WifeId(elements[j1]) = I2
          /\ HusbandId(elements[j2]) = I2 /\ WifeId(elements[j2]) = I1
          /\ Count(id_to_spouses[I1], I2) = 2
          /\ Count(id_to_spouses[I2], I1) = 2

\* C8: the absent (empty) id is never a key of id_to_spouses or
\* id_to_children and never an element of a spouse list.
C8_NoPlaceholder ==
    /\ NoText \notin DOMAIN id_to_spouses
    /\ NoText \notin DOMAIN id_to_children
    /\ \A k \in DOMAIN id_to_spouses :
          \A i \in 1..Len(id_to_spouses[k]) : id_to_spouses[k][i] # NoText

\* C9: when the conversion is done, the row of every individual that some
\* family record lists as a child carries the ids child_to_parents has for it
\* and the names id_to_name has for those ids, and the row of every other
\* individual has the four fields empty.
C9_ParentEnrichment ==
    phase = "done" =>
        \A k \in 1..Len(elements) :
            elements[k].kind = "INDI" =>
                LET c   == elements[k].pointer
                    row == individuals_data[RowOf(k)]
                IN  IF Listing(c, Len(elements)) # {}
                    THEN /\ row.FatherID = child_to_parents[c][1]
                         /\ row.MotherID = child_to_parents[c][2]
                         /\ row.FatherName = Get(id_to_name, child_to_parents[c][1], NoText)
                         /\ row.MotherName = Get(id_to_name, child_to_parents[c][2], NoText)
                    ELSE /\ row.FatherID = NoText
                         /\ row.MotherID = NoText
                         /\ row.FatherName = NoText
                         /\ row.MotherName = NoText

RelationshipFieldsEmpty(row) ==
    /\ row.FatherID = NoText /\ row.MotherID = NoText
    /\ row.FatherName = NoText /\ row.MotherName = NoText
    /\ row.SpouseID = NoText /\ row.SpouseName = NoText
    /\ row.ChildrenIDs = NoText /\ row.ChildrenNames = NoText

\* C10: the three dicts of the index change only in a step of the families
\* loop, and until that loop is over every relationship field of every
\* individual row is empty.
C10_PhaseSeparation ==
    /\ [](phase \in {"individuals", "families"} =>
            \A r \in 1..Len(individuals_data) :
                RelationshipFieldsEmpty(individuals_data[r]))
    /\ [][indexVars' # indexVars => (phase = "families" /\ phase' = "families")]_vars

\* C10 witness: the conversion is done, the index is not empty and a row has
\* been given a father and a spouse.
C10_Witness ==
    /\ phase = "done"
    /\ child_to_parents # <<>>
    /\ id_to_spouses # <<>>
    /\ \E r \in 1..Len(individuals_data) :
          /\ individuals_data[r].FatherID # NoText
          /\ individuals_data[r].SpouseID # NoText

\* the pointers of the individual records of the file
Pointers == {elements[k].pointer : k \in {j \in 1..Len(elements) : elements[j].kind = "INDI"}}

\* an id that is referenced but has no individual record
Missing(id) == id # NoText /\ id \notin Pointers

\* the names expected for a list of ids: empty where the id is missing
ExpectedNames(ids) ==
    [i \in 1..Len(ids) |-> IF Missing(ids[i]) THEN NoText ELSE Get(id_to_name, ids[i], NoText)]

\* the row of families_data that the family record at position j was given
FamilyRowOf(j) == Cardinality({i \in 1..j : elements[i].kind = "FAM"})

\* the family records naming id as husband or wife
UnionsOf(id) ==
    {j \in FamilyPositions(Len(elements)) :
        HusbandId(elements[j]) = id \/ WifeId(elements[j]) = id}

\* C11: when the conversion is done, every id a family record references
\* without an individual record has the empty name at its position in the
\* family's row and in the rows of the related individuals, and the id itself
\* is in the id field next to it.
C11_MissingReferences ==
    phase = "done" =>
        /\ \A j \in FamilyPositions(Len(elements)) :
              LET row == families_data[FamilyRowOf(j)]
                  H   == HusbandId(elements[j])
                  W   == WifeId(elements[j])
                  cs  == ChildrenIds(elements[j].children)
              IN  /\ Missing(H) =>
                        row.HusbandName = NoText /\ row.HusbandID = sanitize_string(H)
                  /\ Missing(W) =>
                        row.WifeName = NoText /\ row.WifeID = sanitize_string(W)
                  /\ (\E i \in 1..Len(cs) : Missing(cs[i])) =>
                        /\ row.ChildrenNames = sanitize_string(join(ExpectedNames(cs)))
                        /\ row.ChildrenIDs = sanitize_string(join(cs))
        /\ \A k \in 1..Len(elements) :
              elements[k].kind = "INDI" =>
                  LET c   == elements[k].pointer
                      row == individuals_data[RowOf(k)]
                  IN  /\ Listing(c, Len(elements)) # {} =>
                            LET F == ParentsIn(Last(Listing(c, Len(elements))))[1]
                                M == ParentsIn(Last(Listing(c, Len(elements))))[2]
                            IN  /\ Missing(F) =>
                                      row.FatherName = NoText
                                      /\ row.FatherID = sanitize_string(F)
                                /\ Missing(M) =>
                                      row.MotherName = NoText
                                      /\ row.MotherID = sanitize_string(M)
                      /\ (/\ UnionsOf(c) # {}
                          /\ \E i \in 1..Len(id_to_spouses[c]) : Missing(id_to_spouses[c][i])) =>
                            /\ row.SpouseName = sanitize_string(join(ExpectedNames(id_to_spouses[c])))
                            /\ row.SpouseID = sanitize_string(join(id_to_spouses[c]))
                      /\ (/\ UnionsOf(c) # {}
                          /\ \E i \in 1..Len(id_to_children[c]) : Missing(id_to_children[c][i])) =>
                            /\ row.ChildrenNames = sanitize_string(join(ExpectedNames(id_to_children[c])))
                            /\ row.ChildrenIDs = sanitize_string(join(id_to_children[c]))

\* ------------------------------------------------------------------------
\* Properties of the file handling
\* ------------------------------------------------------------------------
\* the run has reported an I/O failure of this path, as something other than
\* the catch-all "An error occurred"
IoFailureReported(path) ==
    /\ outcome.kind \notin {"none", "complete", "an_error_occurred"}
    /\ outcome.path = path

\* C12: when the run has ended, a missing or unreadable input file has been
\* reported as an I/O failure of the input path, a failure to write the
\* output path as an I/O failure of the output path, and in both cases no
\* workbook has been written.
C12_IoFailureAttributed ==
    step = "exited" =>
        /\ input_status # "readable" => (IoFailureReported("input") /\ ~workbook)
        /\ exception.path = "output" => (IoFailureReported("output") /\ ~workbook)

\* C14: when the run has ended, by a return or by an exception of the repair
\* pass, the parser or the workbook writer, the temporary repaired file is no
\* longer on disk.
C14_TempFileDeleted == step = "exited" => ~temp_exists

\* ------------------------------------------------------------------------
\* Accumulation of the spouse and children lists
\* ------------------------------------------------------------------------
\* the indexed family records naming id as husband or wife
IndexedUnionsOf(id) ==
    {j \in FamilyPositions(Indexed) :
        HusbandId(elements[j]) = id \/ WifeId(elements[j]) = id}

\* the child lists of the records from position j on that name id as husband
\* or wife, each record taken once
RECURSIVE ChildrenPerRecord(_, _)
ChildrenPerRecord(id, j) ==
    IF j > Indexed THEN <<>>
    ELSE (IF j \in IndexedUnionsOf(id) THEN ChildrenIds(elements[j].children) ELSE <<>>)
         \o ChildrenPerRecord(id, j + 1)

\* the same, a record taken once for the husband role and once for the wife
\* role that id has in it
RECURSIVE ChildrenPerRole(_, _)
ChildrenPerRole(id, j) ==
    IF j > Indexed THEN <<>>
    ELSE LET fam == elements[j].kind = "FAM"
             cs  == ChildrenIds(elements[j].children)
         IN  (IF fam /\ HusbandId(elements[j]) = id THEN cs ELSE <<>>)
             \o (IF fam /\ WifeId(elements[j]) = id THEN cs ELSE <<>>)
             \o ChildrenPerRole(id, j + 1)

\* the partner ids of the records from position j on, one for each role id has
RECURSIVE SpousesPerRole(_, _)
SpousesPerRole(id, j) ==
    IF j > Indexed THEN <<>>
    ELSE LET fam == elements[j].kind = "FAM"
         IN  (IF fam /\ HusbandId(elements[j]) = id THEN <<WifeId(elements[j])>> ELSE <<>>)
             \o (IF fam /\ WifeId(elements[j]) = id THEN <<HusbandId(elements[j])>> ELSE <<>>)
             \o SpousesPerRole(id, j + 1)

\* C13 as stated: id_to_children[P] is the concatenation in file order of the
\* child lists of exactly the records naming P as husband or wife, and
\* id_to_spouses[P] has one element per such record.
C13_AccumulationPerRecord ==
    \A P \in Ids :
        IndexedUnionsOf(P) # {} =>
            /\ P \in DOMAIN id_to_children /\ P \in DOMAIN id_to_spouses
            /\ id_to_children[P] = ChildrenPerRecord(P, 1)
            /\ Len(id_to_spouses[P]) = Cardinality(IndexedUnionsOf(P))

\* C13 as amended: id_to_children[P] is the concatenation in file order of the
\* child lists of the records naming P, once for each of the husband and wife
\* roles P has in the record, id_to_spouses[P] has the partner id of each such
\* role in the same order, nothing is deduplicated, and an id no record names
\* as husband or wife has no entry.
C13_AccumulationPerRole ==
    \A P \in Ids :
        IF IndexedUnionsOf(P) = {}
        THEN P \notin DOMAIN id_to_children /\ P \notin DOMAIN id_to_spouses
        ELSE /\ P \in DOMAIN id_to_children /\ P \in DOMAIN id_to_spouses
             /\ id_to_children[P] = ChildrenPerRole(P, 1)
             /\ id_to_spouses[P] = SpousesPerRole(P, 1)

\* C13 witness: the families loop is over, two records name the same couple
\* and list the same child, and both the partner and the child are twice in
\* the husband's and in the wife's lists.
C13_Witness ==
    /\ phase = "done"
    /\ \E j1, j2 \in FamilyPositions(Len(elements)) :
          /\ j1 < j2
          /\ HusbandId(elements[j1]) = I1 /\ WifeId(elements[j1]) = I2
          /\ HusbandId(elements[j2]) = I1 /\ WifeId(elements[j2]) = I2
          /\ ChildrenIds(elements[j1].children) = <<I3>>
          /\ ChildrenIds(elements[j2].children) = <<I3>>
    /\ id_to_spouses[I1] = <<I2, I2>>
    /\ id_to_spouses[I2] = <<I1, I1>>
    /\ id_to_children[I1] = <<I3, I3>>
    /\ id_to_children[I2] = <<I3, I3>>

====
